---- MODULE Spec2Model ----
(***************************************************************************)
(* Sticker Sketchpad (src/src/main.ts): the display list, the redo stack,  *)
(* the pointer and tool state, and the canvas the redraw listener paints.  *)
(*                                                                         *)
(* Every event handler of main.ts is an operator from program state to     *)
(* program state (a record with one field per program variable), and one   *)
(* action applies it.  dispatchEvent is synchronous, so a handler's        *)
(* trailing dispatch of "drawing-changed" is part of the handler.          *)
(*                                                                         *)
(* events counts the events handled, lastEvent and prevEvent name the last *)
(* two, released says that the pointer was released or left the canvas     *)
(* and has not been pressed since, lastDownId is the identity of the item  *)
(* the most recent mousedown appended; none of them is program state.      *)
(*                                                                         *)
(* Numbers: opacity and globalAlpha are in hundredths (1 is 100, 0.3 is    *)
(* 30).  Glyphs are written by code point ("U+1F338") since the module is  *)
(* ASCII.  Object identity is the field id, the number of objects the      *)
(* program had created before this one.                                    *)
(***************************************************************************)
EXTENDS Integers, Sequences, FiniteSets

VARIABLES strokes, redoStack, cursor, preview,
          currentThickness, currentOpacity, currentEmoji, currentColor,
          customStickers, buttons,
          early, earlyEvents, earlyLast, earlyBeforeClear,
          imgComplete, nextId, ctx, events, lastEvent, prevEvent,
          released, lastDownId

\* the earlier undo/redo sketchpad (src/unnamed/part_001) is a program of its
\* own: `early` holds its strokes, redoStack, cursor and 2D context
earlyVars == <<early, earlyEvents, earlyLast, earlyBeforeClear>>

vars == <<strokes, redoStack, cursor, preview,
          currentThickness, currentOpacity, currentEmoji, currentColor,
          customStickers, buttons,
          early, earlyEvents, earlyLast, earlyBeforeClear,
          imgComplete, nextId, ctx, events, lastEvent, prevEvent,
          released, lastDownId>>

(***************************************************************************)
(* Bounds and input sets.                                                  *)
(***************************************************************************)
\* A run handles at most MaxEvents events.
MaxEvents == 5

\* e.offsetX, e.offsetY of the pointer events.
Positions == {[x |-> 1, y |-> 2], [x |-> 300, y |-> 400]}

\* Values the colour picker reports.
PickedColors == {"#000000", "#ff0000"}

\* characters String.prototype.trim strips: ECMAScript WhiteSpace (tab, VT, FF,
\* space, NBSP, ZWNBSP and the Unicode space separators) and LineTerminator
\* (LF, CR, LS, PS); a character outside ASCII is written by its code point
Whitespace ==
  {" ", "\t", "\n", "\r", "\f", "U+0009", "U+000A", "U+000B", "U+000C",
   "U+000D", "U+0020", "U+00A0", "U+1680",
   "U+2000", "U+2001", "U+2002", "U+2003", "U+2004", "U+2005", "U+2006",
   "U+2007", "U+2008", "U+2009", "U+200A",
   "U+2028", "U+2029", "U+202F", "U+205F", "U+3000", "U+FEFF"}

\* answers of the prompt dialog: cancelled (null), or a typed text
Cancelled == [isNull |-> TRUE, chars |-> <<>>]
Typed(chars) == [isNull |-> FALSE, chars |-> chars]
PromptInputs ==
  {Cancelled, Typed(<<>>), Typed(<<" ", "U+3000">>),
   Typed(<<"\r", "U", "+", "1", "F", "3", "3", "8", "U+00A0">>),
   Typed(<<"n", "u", "l", "l">>)}

(***************************************************************************)
(* Program constants.                                                      *)
(***************************************************************************)
ThinThickness == 1
ThickThickness == 4
HighlightThickness == 10
FullOpacity == 100
HighlightOpacity == 30
MarkerPreviewAlpha == 90
EmojiPreviewAlpha == 60
PreviewSize == 32
TipOffsetX == 15
TipOffsetY == 0
FallbackMinLen == 6
CanvasSize == 512
ExportSize == 1024
ExportScale == 4

\* a string is the sequence of its characters, one element each: a printable
\* ASCII character is written as itself, any other by the name of its code
\* point, so the seven typed characters U+1F338 and the flower are different
Flower == <<"U+1F338">>
Teddy == <<"U+1F9F8">>
Sparkle == <<"U+2728">>

\* `currentEmoji: string | null`: null, or a string; null is no string, so the
\* typed text "null" is a glyph like any other
NullEmoji == [isNull |-> TRUE, text |-> <<>>]
Emoji(text) == [isNull |-> FALSE, text |-> text]

\* `if (currentEmoji)`: neither null nor the empty string
Truthy(e) == ~e.isNull /\ e.text # <<>>

\* null of `preview: ToolPreview | null`
NullPreview == [kind |-> "null"]

Max(a, b) == IF a >= b THEN a ELSE b

(***************************************************************************)
(* The 2D context: drawing state, save stack, and what is painted.         *)
(***************************************************************************)
DefaultDrawState ==
  [scale |-> 1, lineWidth |-> 1, globalAlpha |-> 100, strokeStyle |-> "#000000",
   fillStyle |-> "#000000", lineJoin |-> "miter", lineCap |-> "butt",
   font |-> "10px sans-serif", textAlign |-> "start",
   textBaseline |-> "alphabetic"]

InitCtx == [cur |-> DefaultDrawState, stack |-> <<>>, ops |-> <<>>, overlay |-> <<>>]

ctx_save(g) == [g EXCEPT !.stack = Append(@, g.cur)]

ctx_restore(g) ==
  IF Len(g.stack) = 0 THEN g
  ELSE [g EXCEPT !.cur = g.stack[Len(g.stack)],
                 !.stack = SubSeq(g.stack, 1, Len(g.stack) - 1)]

\* ctx.scale(k, k): user-space lengths are multiplied by k on the surface
ctx_scale(g, k) == [g EXCEPT !.cur.scale = @ * k]

\* clearRect(0, 0, canvas.width, canvas.height): the whole surface
ctx_clearRect(g) == [g EXCEPT !.ops = <<>>, !.overlay = <<>>]

(***************************************************************************)
(* Drawable items.                                                         *)
(***************************************************************************)
NewSimpleMarkerLineWithColor(id, x, y, thickness, opacity, color) ==
  [id |-> id, kind |-> "line", points |-> <<[x |-> x, y |-> y]>>,
   thickness |-> thickness, opacity |-> opacity, color |-> color]

NewSticker(id, x, y, emoji) ==
  [id |-> id, kind |-> "sticker", x |-> x, y |-> y, emoji |-> emoji]

NewClearMarkerLine(id) == [id |-> id, kind |-> "clear"]

SimpleMarkerLine_drag(item, x, y) ==
  [item EXCEPT !.points = Append(@, [x |-> x, y |-> y])]

\* sticker drag that moves the sticker along x only
Sticker_drag_xOnly(item, x, y) == [item EXCEPT !.x = x]

Sticker_drag(item, x, y) == [item EXCEPT !.x = x, !.y = y]

ClearMarkerLine_drag(item, x, y) == item

drag(item, x, y) ==
  CASE item.kind = "line" -> SimpleMarkerLine_drag(item, x, y)
    [] item.kind = "sticker" -> Sticker_drag(item, x, y)
    [] item.kind = "clear" -> ClearMarkerLine_drag(item, x, y)

SimpleMarkerLine_display(item, g) ==
  IF Len(item.points) = 0 THEN g
  ELSE
    LET g1 == [g EXCEPT !.cur.lineWidth = item.thickness,
                        !.cur.globalAlpha = item.opacity,
                        !.cur.lineJoin = "round",
                        !.cur.lineCap = "round"]
    IN IF Len(item.points) = 1
       THEN [g1 EXCEPT !.ops = Append(@,
               [op |-> "fillArc", scale |-> g1.cur.scale, x |-> item.points[1].x, y |-> item.points[1].y,
                radius |-> Max(1, item.thickness),
                fillStyle |-> g1.cur.fillStyle,
                globalAlpha |-> g1.cur.globalAlpha])]
       ELSE [g1 EXCEPT !.ops = Append(@,
               [op |-> "stroke", scale |-> g1.cur.scale, path |-> item.points,
                lineWidth |-> g1.cur.lineWidth,
                strokeStyle |-> g1.cur.strokeStyle,
                globalAlpha |-> g1.cur.globalAlpha,
                lineJoin |-> g1.cur.lineJoin, lineCap |-> g1.cur.lineCap])]

\* display without ctx.save() / ctx.restore()
SimpleMarkerLineWithColor_display_noSave(item, g) ==
  LET g2 == [g EXCEPT !.cur.strokeStyle = item.color,
                      !.cur.fillStyle = item.color]
  IN SimpleMarkerLine_display(item, g2)

SimpleMarkerLineWithColor_display(item, g) ==
  LET g1 == ctx_save(g)
      g2 == [g1 EXCEPT !.cur.strokeStyle = item.color,
                       !.cur.fillStyle = item.color]
  IN ctx_restore(SimpleMarkerLine_display(item, g2))

Sticker_display(item, g) ==
  LET g1 == ctx_save(g)
      g2 == [g1 EXCEPT !.cur.font = "32px Arial",
                       !.cur.textAlign = "center",
                       !.cur.textBaseline = "middle"]
      g3 == [g2 EXCEPT !.ops = Append(@,
               [op |-> "fillText", scale |-> g2.cur.scale, text |-> item.emoji, x |-> item.x, y |-> item.y,
                font |-> g2.cur.font, textAlign |-> g2.cur.textAlign,
                textBaseline |-> g2.cur.textBaseline,
                fillStyle |-> g2.cur.fillStyle,
                globalAlpha |-> g2.cur.globalAlpha])]
  IN ctx_restore(g3)

ClearMarkerLine_display(item, g) == ctx_clearRect(g)

display(item, g) ==
  CASE item.kind = "line" -> SimpleMarkerLineWithColor_display(item, g)
    [] item.kind = "sticker" -> Sticker_display(item, g)
    [] item.kind = "clear" -> ClearMarkerLine_display(item, g)

\* for (const stroke of strokes) stroke.display(ctx), from index i on
RECURSIVE DisplayFrom(_, _, _)
DisplayFrom(list, i, g) ==
  IF i > Len(list) THEN g
  ELSE DisplayFrom(list, i + 1, display(list[i], g))

(***************************************************************************)
(* Tool previews.                                                          *)
(***************************************************************************)
NewMarkerPreview(x, y, thickness) ==
  [kind |-> "marker", x |-> x, y |-> y, thickness |-> thickness]

NewEmojiPreview(x, y, emoji) ==
  [kind |-> "emoji", x |-> x, y |-> y, emoji |-> emoji]

MarkerPreview_draw(p, complete, g) ==
  LET half == PreviewSize \div 2
      g1 == ctx_save(g)
      g2 == [g1 EXCEPT !.cur.globalAlpha = MarkerPreviewAlpha]
      g3 == IF complete
            THEN [g2 EXCEPT !.overlay = Append(@,
                    [op |-> "drawImage", scale |-> g2.cur.scale, dx |-> p.x - half + TipOffsetX,
                     dy |-> p.y - PreviewSize + TipOffsetY,
                     w |-> PreviewSize, h |-> PreviewSize,
                     globalAlpha |-> g2.cur.globalAlpha])]
            ELSE LET g2a == [g2 EXCEPT !.cur.strokeStyle = "black",
                                       !.cur.lineWidth = Max(1, p.thickness)]
                 IN [g2a EXCEPT !.overlay = Append(@,
                       [op |-> "asterisk", scale |-> g2a.cur.scale, cx |-> p.x + TipOffsetX,
                        cy |-> p.y + TipOffsetY,
                        len |-> Max(FallbackMinLen, half),
                        lineWidth |-> g2a.cur.lineWidth,
                        strokeStyle |-> g2a.cur.strokeStyle,
                        globalAlpha |-> g2a.cur.globalAlpha])]
  IN ctx_restore(g3)

EmojiPreview_draw(p, g) ==
  LET g1 == ctx_save(g)
      g2 == [g1 EXCEPT !.cur.globalAlpha = EmojiPreviewAlpha,
                       !.cur.font = "32px Arial",
                       !.cur.textAlign = "center",
                       !.cur.textBaseline = "middle"]
      g3 == [g2 EXCEPT !.overlay = Append(@,
               [op |-> "fillText", scale |-> g2.cur.scale, text |-> p.emoji, x |-> p.x, y |-> p.y,
                font |-> g2.cur.font, textAlign |-> g2.cur.textAlign,
                textBaseline |-> g2.cur.textBaseline,
                fillStyle |-> g2.cur.fillStyle,
                globalAlpha |-> g2.cur.globalAlpha])]
  IN ctx_restore(g3)

preview_draw(p, complete, g) ==
  CASE p.kind = "marker" -> MarkerPreview_draw(p, complete, g)
    [] p.kind = "emoji" -> EmojiPreview_draw(p, g)

(***************************************************************************)
(* Program state as a record, and the handlers.                            *)
(***************************************************************************)
St ==
  [strokes |-> strokes, redoStack |-> redoStack, cursor |-> cursor,
   preview |-> preview, currentThickness |-> currentThickness,
   currentOpacity |-> currentOpacity, currentEmoji |-> currentEmoji,
   customStickers |-> customStickers, buttons |-> buttons,
   currentColor |-> currentColor, imgComplete |-> imgComplete,
   nextId |-> nextId, ctx |-> ctx]

\* canvas.addEventListener("drawing-changed", ...)
drawing_changed(st) ==
  LET g0 == ctx_clearRect(st.ctx)
      g1 == DisplayFrom(st.strokes, 1, g0)
      g2 == IF ~st.cursor.active /\ st.preview # NullPreview
            THEN preview_draw(st.preview, st.imgComplete, g1)
            ELSE g1
  IN [st EXCEPT !.ctx = g2]

\* markerImg.onload; the image becomes complete in the task that fires load
markerImg_onload(st) == drawing_changed([st EXCEPT !.imgComplete = TRUE])

\* undo that forgets the item: pops it and never pushes it to redoStack
undoBtn_onclick_dropsItem(st) ==
  IF Len(st.strokes) = 0 THEN st
  ELSE drawing_changed([st EXCEPT !.strokes = SubSeq(@, 1, Len(@) - 1)])

undoBtn_onclick(st) ==
  IF Len(st.strokes) = 0 THEN st
  ELSE LET s == st.strokes[Len(st.strokes)]
       IN drawing_changed(
            [st EXCEPT !.strokes = SubSeq(@, 1, Len(@) - 1),
                       !.redoStack = Append(@, s)])

\* redo that reads the top of redoStack without popping it
redoBtn_onclick_noPop(st) ==
  IF Len(st.redoStack) = 0 THEN st
  ELSE LET s == st.redoStack[Len(st.redoStack)]
       IN drawing_changed([st EXCEPT !.strokes = Append(@, s)])

\* redo without the length check and without `if (s)`: on an empty stack it
\* pushes the undefined that pop() returned, and the redraw then throws
redoBtn_onclick_unguarded(st) ==
  IF Len(st.redoStack) = 0
  THEN [st EXCEPT !.strokes = Append(@, [kind |-> "undefined"])]
  ELSE LET s == st.redoStack[Len(st.redoStack)]
       IN drawing_changed(
            [st EXCEPT !.redoStack = SubSeq(@, 1, Len(@) - 1),
                       !.strokes = Append(@, s)])

redoBtn_onclick(st) ==
  IF Len(st.redoStack) = 0 THEN st
  ELSE LET s == st.redoStack[Len(st.redoStack)]
       IN drawing_changed(
            [st EXCEPT !.redoStack = SubSeq(@, 1, Len(@) - 1),
                       !.strokes = Append(@, s)])

\* clear without the coalescing check
clearBtn_onclick_noCoalesce(st) ==
  drawing_changed(
    [st EXCEPT !.strokes = Append(@, NewClearMarkerLine(st.nextId)),
               !.nextId = @ + 1,
               !.redoStack = <<>>])

\* clear that empties the display list before it pushes the marker
clearBtn_onclick_wipes(st) ==
  IF Len(st.strokes) > 0 /\ st.strokes[Len(st.strokes)].kind = "clear" THEN st
  ELSE drawing_changed(
         [st EXCEPT !.strokes = <<NewClearMarkerLine(st.nextId)>>,
                    !.nextId = @ + 1,
                    !.redoStack = <<>>])

clearBtn_onclick(st) ==
  IF Len(st.strokes) > 0 /\ st.strokes[Len(st.strokes)].kind = "clear" THEN st
  ELSE drawing_changed(
         [st EXCEPT !.strokes = Append(@, NewClearMarkerLine(st.nextId)),
                    !.nextId = @ + 1,
                    !.redoStack = <<>>])

\* factory that drops its opacity argument and lets the default of 1 apply
createMarkerLine_defaultOpacity(st, id, x, y, thickness, opacity) ==
  NewSimpleMarkerLineWithColor(id, x, y, thickness, FullOpacity, st.currentColor)

createMarkerLine(st, id, x, y, thickness, opacity) ==
  NewSimpleMarkerLineWithColor(id, x, y, thickness, opacity, st.currentColor)

\* mousedown that leaves redoStack alone
canvas_mousedown_keepsRedo(st, ex, ey) ==
  LET st1 == [st EXCEPT !.cursor = [active |-> TRUE, x |-> ex, y |-> ey],
                        !.preview = NullPreview]
      item == IF Truthy(st1.currentEmoji)
              THEN NewSticker(st1.nextId, st1.cursor.x, st1.cursor.y, st1.currentEmoji.text)
              ELSE createMarkerLine(st1, st1.nextId, st1.cursor.x, st1.cursor.y,
                                    st1.currentThickness, st1.currentOpacity)
  IN drawing_changed(
       [st1 EXCEPT !.strokes = Append(@, item),
                   !.nextId = @ + 1])

canvas_mousedown(st, ex, ey) ==
  LET st1 == [st EXCEPT !.cursor = [active |-> TRUE, x |-> ex, y |-> ey],
                        !.preview = NullPreview]
      item == IF Truthy(st1.currentEmoji)
              THEN NewSticker(st1.nextId, st1.cursor.x, st1.cursor.y, st1.currentEmoji.text)
              ELSE createMarkerLine(st1, st1.nextId, st1.cursor.x, st1.cursor.y,
                                    st1.currentThickness, st1.currentOpacity)
  IN drawing_changed(
       [st1 EXCEPT !.strokes = Append(@, item),
                   !.nextId = @ + 1,
                   !.redoStack = <<>>])

\* tool-moused that builds a preview also while drawing
tool_moused_alwaysPreview(st, d) ==
  LET p == IF Truthy(st.currentEmoji)
           THEN NewEmojiPreview(d.x, d.y, st.currentEmoji.text)
           ELSE NewMarkerPreview(d.x, d.y, d.thickness)
  IN drawing_changed([st EXCEPT !.preview = p])

\* canvas.addEventListener("tool-moused", ...), d the event's detail
tool_moused(st, d) ==
  LET p == IF d.active THEN NullPreview
           ELSE IF Truthy(st.currentEmoji)
                THEN NewEmojiPreview(d.x, d.y, st.currentEmoji.text)
                ELSE NewMarkerPreview(d.x, d.y, d.thickness)
  IN drawing_changed([st EXCEPT !.preview = p])

\* mousemove that extends strokes[0] instead of strokes[strokes.length - 1]
canvas_mousemove_dragsFirst(st, ex, ey) ==
  LET st1 == tool_moused(st, [x |-> ex, y |-> ey, active |-> st.cursor.active,
                              thickness |-> st.currentThickness,
                              opacity |-> st.currentOpacity])
  IN IF st1.cursor.active /\ Len(st1.strokes) > 0
     THEN drawing_changed(
            [st1 EXCEPT !.strokes[1] = drag(@, ex, ey),
                        !.cursor.x = ex,
                        !.cursor.y = ey])
     ELSE st1

canvas_mousemove(st, ex, ey) ==
  LET st1 == tool_moused(st, [x |-> ex, y |-> ey, active |-> st.cursor.active,
                              thickness |-> st.currentThickness,
                              opacity |-> st.currentOpacity])
  IN IF st1.cursor.active /\ Len(st1.strokes) > 0
     THEN LET n == Len(st1.strokes)
          IN drawing_changed(
               [st1 EXCEPT !.strokes[n] = drag(@, ex, ey),
                           !.cursor.x = ex,
                           !.cursor.y = ey])
     ELSE st1

\* mouseup that leaves cursor.active set
canvas_mouseup_keepsActive(st) == st

canvas_mouseup(st) == [st EXCEPT !.cursor.active = FALSE]

\* mouseleave that forgets to dispatch "drawing-changed"
canvas_mouseleave_noRedraw(st) ==
  [st EXCEPT !.cursor.active = FALSE, !.preview = NullPreview]

canvas_mouseleave(st) ==
  drawing_changed([st EXCEPT !.cursor.active = FALSE, !.preview = NullPreview])

\* what exportBtn.onclick paints on its offscreen canvas before toBlob
exportBtn_canvas(st) ==
  LET g0 == ctx_save(InitCtx)
      g1 == ctx_scale(g0, ExportScale)
      g2 == DisplayFrom(st.strokes, 1, g1)
  IN ctx_restore(g2)

\* exportBtn.onclick: the canvas, its blob and the link are local to the
\* handler and leave as a download; no program variable is assigned
exportBtn_onclick(st) == st

\* the click leaves the custom sticker buttons as they were
ToolPicked_keepsCustom(b, name, setsCustomBtn) ==
  [thinBtn |-> name = "thinBtn", thickBtn |-> name = "thickBtn",
   hlBtn |-> name = "hlBtn", flowerBtn |-> name = "flowerBtn",
   teddyBtn |-> name = "teddyBtn", sparkleBtn |-> name = "sparkleBtn",
   customBtn |-> IF setsCustomBtn THEN FALSE ELSE b.customBtn,
   customBtns |-> b.customBtns]

\* the `disabled` flags after a click on one of the six built-in tool buttons:
\* that button disabled, the other five enabled, every custom sticker button
\* enabled; customBtn is assigned only where the handler assigns it
ToolPicked(b, name, setsCustomBtn) ==
  [thinBtn |-> name = "thinBtn", thickBtn |-> name = "thickBtn",
   hlBtn |-> name = "hlBtn", flowerBtn |-> name = "flowerBtn",
   teddyBtn |-> name = "teddyBtn", sparkleBtn |-> name = "sparkleBtn",
   customBtn |-> IF setsCustomBtn THEN FALSE ELSE b.customBtn,
   customBtns |-> [i \in 1..Len(b.customBtns) |-> FALSE]]

thinBtn_onclick(st) ==
  [st EXCEPT !.currentThickness = ThinThickness,
             !.currentOpacity = FullOpacity,
             !.currentEmoji = NullEmoji,
             !.buttons = ToolPicked(st.buttons, "thinBtn", FALSE)]

thickBtn_onclick(st) ==
  [st EXCEPT !.currentThickness = ThickThickness,
             !.currentOpacity = FullOpacity,
             !.currentEmoji = NullEmoji,
             !.buttons = ToolPicked(st.buttons, "thickBtn", FALSE)]

hlBtn_onclick(st) ==
  [st EXCEPT !.currentThickness = HighlightThickness,
             !.currentOpacity = HighlightOpacity,
             !.currentEmoji = NullEmoji,
             !.buttons = ToolPicked(st.buttons, "hlBtn", FALSE)]

flowerBtn_onclick(st) ==
  [st EXCEPT !.currentEmoji = Emoji(Flower),
             !.buttons = ToolPicked(st.buttons, "flowerBtn", FALSE)]

teddyBtn_onclick(st) ==
  [st EXCEPT !.currentEmoji = Emoji(Teddy),
             !.buttons = ToolPicked(st.buttons, "teddyBtn", FALSE)]

sparkleBtn_onclick(st) ==
  [st EXCEPT !.currentEmoji = Emoji(Sparkle),
             !.buttons = ToolPicked(st.buttons, "sparkleBtn", TRUE)]

\* String.prototype.trim on a text held as a sequence of characters
RECURSIVE trimStart(_)
trimStart(chars) ==
  IF chars # <<>> /\ Head(chars) \in Whitespace
  THEN trimStart(Tail(chars)) ELSE chars

RECURSIVE trimEnd(_)
trimEnd(chars) ==
  IF chars # <<>> /\ chars[Len(chars)] \in Whitespace
  THEN trimEnd(SubSeq(chars, 1, Len(chars) - 1)) ELSE chars

trim(chars) == trimEnd(trimStart(chars))

\* createCustomStickerButton: one more button in the custom row, enabled, with
\* data-index = index; customStickers[index] is its glyph
createCustomStickerButton(st, sticker, index) ==
  [st EXCEPT !.buttons.customBtns = Append(@, FALSE)]

\* customBtn.onclick with the answer of the prompt: null when cancelled, else
\* the typed text; an empty or blank answer is dropped (`input && input.trim()`)
customBtn_onclick(st, input) ==
  IF input.isNull \/ input.chars = <<>> \/ trim(input.chars) = <<>>
  THEN st
  ELSE LET pushed == [st EXCEPT !.customStickers = Append(@, trim(input.chars))]
       IN createCustomStickerButton(pushed, trim(input.chars),
                                    Len(pushed.customStickers) - 1)

\* the custom sticker button restamps every existing sticker with its glyph
customStickerBtn_onclick_restamps(st, index) ==
  LET g == st.customStickers[index + 1]
      Restamp(items) == [i \in 1..Len(items) |->
                           IF items[i].kind = "sticker"
                           THEN [items[i] EXCEPT !.emoji = g] ELSE items[i]]
  IN [st EXCEPT !.currentEmoji = Emoji(g),
                !.strokes = Restamp(@),
                !.redoStack = Restamp(@)]

\* onclick of the custom sticker button with data-index = index (0-based):
\* its glyph becomes the tool, the six built-in buttons and customBtn are
\* enabled, and among the custom sticker buttons only this one is disabled
customStickerBtn_onclick(st, index) ==
  [st EXCEPT !.currentEmoji = Emoji(st.customStickers[index + 1]),
             !.buttons = [thinBtn |-> FALSE, thickBtn |-> FALSE,
                          hlBtn |-> FALSE, flowerBtn |-> FALSE,
                          teddyBtn |-> FALSE, sparkleBtn |-> FALSE,
                          customBtn |-> FALSE,
                          customBtns |-> [i \in 1..Len(st.buttons.customBtns)
                                            |-> i - 1 = index]]]

colorInput_oninput(st, value) == [st EXCEPT !.currentColor = value]

(***************************************************************************)
(* The state machine.                                                      *)
(***************************************************************************)
Init ==
  /\ strokes = <<>>
  /\ redoStack = <<>>
  /\ cursor = [active |-> FALSE, x |-> 0, y |-> 0]
  /\ preview = NullPreview
  /\ currentThickness = 1
  /\ currentOpacity = 100
  /\ currentEmoji = NullEmoji
  /\ currentColor = "#000000"
  /\ customStickers = <<>>
  /\ buttons = [thinBtn |-> TRUE, thickBtn |-> FALSE, hlBtn |-> FALSE,
                flowerBtn |-> FALSE, teddyBtn |-> FALSE, sparkleBtn |-> FALSE,
                customBtn |-> FALSE, customBtns |-> <<>>]
  /\ imgComplete = FALSE
  /\ nextId = 0
  /\ ctx = InitCtx
  /\ events = 0
  /\ lastEvent = "none"
  /\ prevEvent = "none"
  /\ released = FALSE
  /\ lastDownId = -1
  /\ early = [strokes |-> <<>>, redoStack |-> <<>>,
              cursor |-> [active |-> FALSE, x |-> 0, y |-> 0],
              ctx |-> InitCtx]
  /\ earlyEvents = 0
  /\ earlyLast = "none"
  /\ earlyBeforeClear = [strokes |-> 0, redoStack |-> 0]

\* the run may handle one more event
More == events < MaxEvents

\* one event handled: the program state becomes new; lastEvent names the event
Handle(name, new) ==
  /\ events' = events + 1
  /\ lastEvent' = name
  /\ prevEvent' = lastEvent
  /\ released' = IF name \in {"mouseup", "mouseleave"} THEN TRUE
                 ELSE IF name = "mousedown" THEN FALSE ELSE released
  /\ lastDownId' = IF name = "mousedown" THEN nextId ELSE lastDownId
  /\ strokes' = new.strokes
  /\ redoStack' = new.redoStack
  /\ cursor' = new.cursor
  /\ preview' = new.preview
  /\ currentThickness' = new.currentThickness
  /\ currentOpacity' = new.currentOpacity
  /\ currentEmoji' = new.currentEmoji
  /\ currentColor' = new.currentColor
  /\ customStickers' = new.customStickers
  /\ buttons' = new.buttons
  /\ imgComplete' = new.imgComplete
  /\ nextId' = new.nextId
  /\ ctx' = new.ctx
  /\ UNCHANGED earlyVars

Undo == More /\ Handle("undo", undoBtn_onclick(St))
Redo == More /\ Handle("redo", redoBtn_onclick(St))
Clear == More /\ Handle("clear", clearBtn_onclick(St))
MouseDown == More /\ \E p \in Positions : Handle("mousedown", canvas_mousedown(St, p.x, p.y))
MouseMove == More /\ \E p \in Positions : Handle("mousemove", canvas_mousemove(St, p.x, p.y))
MouseUp == More /\ Handle("mouseup", canvas_mouseup(St))
MouseLeave == More /\ Handle("mouseleave", canvas_mouseleave(St))
SelectThin == More /\ Handle("thin", thinBtn_onclick(St))
SelectThick == More /\ Handle("thick", thickBtn_onclick(St))
SelectHighlight == More /\ Handle("highlight", hlBtn_onclick(St))
SelectFlower == More /\ Handle("flower", flowerBtn_onclick(St))
SelectTeddy == More /\ Handle("teddy", teddyBtn_onclick(St))
SelectSparkle == More /\ Handle("sparkle", sparkleBtn_onclick(St))
PickColor == More /\ \E c \in PickedColors : Handle("color", colorInput_oninput(St, c))
ImgLoad == More /\ ~imgComplete /\ Handle("load", markerImg_onload(St))
Export == More /\ Handle("export", exportBtn_onclick(St))
AddCustom == More /\ \E input \in PromptInputs : Handle("custom", customBtn_onclick(St, input))
SelectCustom ==
  More /\ \E index \in 0..(Len(customStickers) - 1) :
            Handle("customsticker", customStickerBtn_onclick(St, index))

Next ==
  \/ Undo
  \/ Redo
  \/ Clear
  \/ MouseDown
  \/ MouseMove
  \/ MouseUp
  \/ MouseLeave
  \/ SelectThin
  \/ SelectThick
  \/ SelectHighlight
  \/ SelectFlower
  \/ SelectTeddy
  \/ SelectSparkle
  \/ PickColor
  \/ ImgLoad
  \/ Export
  \/ AddCustom
  \/ SelectCustom

Spec == Init /\ [][Next]_vars

(***************************************************************************)
(* The earlier undo/redo sketchpad, src/unnamed/part_001: strokes are       *)
(* arrays of points on a 256x256 canvas, with Undo, Redo and Clear.         *)
(***************************************************************************)
EarlyDotRadius == 1

\* pointer positions on the 256x256 canvas
EarlyPositions == {[x |-> 1, y |-> 2], [x |-> 30, y |-> 40]}

\* "drawing-changed" listener of part_001: a one-point stroke is a dot, a
\* longer one a polyline; the context is styled in place
RECURSIVE early_drawFrom(_, _, _)
early_drawFrom(list, i, g) ==
  IF i > Len(list) THEN g
  ELSE LET stroke == list[i]
           g1 == IF Len(stroke) = 0 THEN g
                 ELSE IF Len(stroke) = 1
                 THEN [g EXCEPT !.ops = Append(@,
                         [op |-> "fillArc", scale |-> g.cur.scale,
                          x |-> stroke[1].x, y |-> stroke[1].y,
                          radius |-> EarlyDotRadius,
                          fillStyle |-> g.cur.fillStyle,
                          globalAlpha |-> g.cur.globalAlpha])]
                 ELSE [g EXCEPT !.ops = Append(@,
                         [op |-> "stroke", scale |-> g.cur.scale, path |-> stroke,
                          lineWidth |-> g.cur.lineWidth,
                          strokeStyle |-> g.cur.strokeStyle,
                          globalAlpha |-> g.cur.globalAlpha,
                          lineJoin |-> g.cur.lineJoin, lineCap |-> g.cur.lineCap])]
       IN early_drawFrom(list, i + 1, g1)

early_drawing_changed(e) ==
  LET g0 == ctx_clearRect(e.ctx)
      g1 == [g0 EXCEPT !.cur.lineWidth = 1,
                       !.cur.lineJoin = "round",
                       !.cur.lineCap = "round",
                       !.cur.strokeStyle = "black",
                       !.cur.fillStyle = "black"]
  IN [e EXCEPT !.ctx = early_drawFrom(e.strokes, 1, g1)]

early_undoBtn_onclick(e) ==
  IF Len(e.strokes) = 0 THEN e
  ELSE early_drawing_changed(
         [e EXCEPT !.strokes = SubSeq(@, 1, Len(@) - 1),
                   !.redoStack = Append(@, e.strokes[Len(e.strokes)])])

early_redoBtn_onclick(e) ==
  IF Len(e.redoStack) = 0 THEN e
  ELSE early_drawing_changed(
         [e EXCEPT !.redoStack = SubSeq(@, 1, Len(@) - 1),
                   !.strokes = Append(@, e.redoStack[Len(e.redoStack)])])

\* Clear that empties the strokes and leaves the redo stack
early_clearBtn_onclick_keepsRedo(e) ==
  early_drawing_changed(
    [e EXCEPT !.strokes = <<>>, !.ctx = ctx_clearRect(@)])

early_clearBtn_onclick(e) ==
  early_drawing_changed(
    [e EXCEPT !.strokes = <<>>, !.redoStack = <<>>, !.ctx = ctx_clearRect(@)])

early_canvas_mousedown(e, offsetX, offsetY) ==
  early_drawing_changed(
    [e EXCEPT !.cursor = [active |-> TRUE, x |-> offsetX, y |-> offsetY],
              !.strokes = Append(@, <<[x |-> offsetX, y |-> offsetY]>>),
              !.redoStack = <<>>])

early_canvas_mousemove(e, offsetX, offsetY) ==
  IF e.cursor.active /\ Len(e.strokes) > 0
  THEN early_drawing_changed(
         [e EXCEPT !.strokes[Len(e.strokes)] = Append(@, [x |-> offsetX, y |-> offsetY]),
                   !.cursor.x = offsetX, !.cursor.y = offsetY])
  ELSE e

early_canvas_mouseup(e) == [e EXCEPT !.cursor.active = FALSE]

early_canvas_mouseleave(e) == [e EXCEPT !.cursor.active = FALSE]

\* the run of the earlier sketchpad may handle one more event
EarlyMore == earlyEvents < MaxEvents

\* one event handled by the earlier sketchpad; earlyBeforeClear keeps the
\* lengths of the two lists at the latest Clear click
EarlyHandle(name, new) ==
  /\ earlyEvents' = earlyEvents + 1
  /\ earlyLast' = name
  /\ earlyBeforeClear' =
       IF name = "clear"
       THEN [strokes |-> Len(early.strokes), redoStack |-> Len(early.redoStack)]
       ELSE earlyBeforeClear
  /\ early' = new
  /\ UNCHANGED <<strokes, redoStack, cursor, preview,
                 currentThickness, currentOpacity, currentEmoji, currentColor,
                 customStickers, buttons, imgComplete, nextId, ctx,
                 events, lastEvent, prevEvent, released, lastDownId>>

EarlyUndo == EarlyMore /\ EarlyHandle("undo", early_undoBtn_onclick(early))
EarlyRedo == EarlyMore /\ EarlyHandle("redo", early_redoBtn_onclick(early))
EarlyClear == EarlyMore /\ EarlyHandle("clear", early_clearBtn_onclick(early))
EarlyMouseDown ==
  EarlyMore /\ \E p \in EarlyPositions :
                 EarlyHandle("mousedown", early_canvas_mousedown(early, p.x, p.y))
EarlyMouseMove ==
  EarlyMore /\ \E p \in EarlyPositions :
                 EarlyHandle("mousemove", early_canvas_mousemove(early, p.x, p.y))
EarlyMouseUp == EarlyMore /\ EarlyHandle("mouseup", early_canvas_mouseup(early))
EarlyMouseLeave == EarlyMore /\ EarlyHandle("mouseleave", early_canvas_mouseleave(early))

EarlyNext ==
  \/ EarlyUndo
  \/ EarlyRedo
  \/ EarlyClear
  \/ EarlyMouseDown
  \/ EarlyMouseMove
  \/ EarlyMouseUp
  \/ EarlyMouseLeave

EarlySpec == Init /\ [][EarlyNext]_vars

(***************************************************************************)
(* Properties.                                                             *)
(***************************************************************************)
LastOf(list) == list[Len(list)]

TailIsClear(list) == Len(list) > 0 /\ LastOf(list).kind = "clear"

ClearCount(list) == Cardinality({i \in 1..Len(list) : list[i].kind = "clear"})

Ids(list) == {list[i].id : i \in 1..Len(list)}

\* the items after the last clear-marker of the list
AfterLastClear(list) ==
  LET cs == {i \in 1..Len(list) : list[i].kind = "clear"}
      from == IF cs = {} THEN 1
              ELSE 1 + CHOOSE i \in cs : \A j \in cs : j <= i
  IN SubSeq(list, from, Len(list))

\* the list with object identity erased
RECURSIVE Content(_)
Content(list) ==
  IF Len(list) = 0 THEN <<>>
  ELSE <<[list[1] EXCEPT !.id = 0]>> \o Content(SubSeq(list, 2, Len(list)))

\* C1 as stated: from every reachable state, Undo then Redo leaves the display
\* list as it was before the Undo.
C1_UndoRedoRestoresAlways ==
  redoBtn_onclick(undoBtn_onclick(St)).strokes = strokes

\* C1 amended: from every reachable state whose display list is non-empty or
\* whose redo stack is empty, Undo then Redo leaves the display list, item for
\* item and in order, as it was before the Undo.
C1_UndoRedoRestores ==
  (Len(strokes) > 0 \/ Len(redoStack) = 0) =>
    redoBtn_onclick(undoBtn_onclick(St)).strokes = strokes

\* an Undo of a non-empty list followed at once by a Redo has happened
C1_Witness ==
  prevEvent = "undo" /\ lastEvent = "redo" /\ Len(strokes) >= 2

\* C2: after every pointer-down the redo stack is empty, and a Redo click
\* then changes nothing.
C2_MouseDownEmptiesRedo ==
  lastEvent = "mousedown" =>
    redoStack = <<>> /\ redoBtn_onclick(St) = St

\* a pointer-down right after an Undo that had moved an item to the redo stack
C2_Witness ==
  /\ prevEvent = "undo" /\ lastEvent = "mousedown"
  /\ Len(strokes) = 1 /\ strokes[1].id = 1

\* C3: after every Clear click the redo stack is empty.
C3_ClearEmptiesRedo == lastEvent = "clear" => redoStack = <<>>

\* C4: after a pointer-move that extended the tail item of the display list,
\* the redo stack is empty.
C4_DragEmptiesRedo ==
  (/\ lastEvent = "mousemove"
   /\ cursor.active
   /\ Len(strokes) > 0
   /\ LastOf(strokes).kind # "clear") => redoStack = <<>>

\* C5 as stated: two consecutive Clear clicks add exactly one clear-marker,
\* and the second leaves the state as the first left it.
C5_TwoClearsAddExactlyOne ==
  LET s1 == clearBtn_onclick(St)
      s2 == clearBtn_onclick(s1)
  IN /\ s2 = s1
     /\ ClearCount(s2.strokes) = ClearCount(strokes) + 1

\* C5 amended: consecutive Clear clicks add at most one clear-marker (exactly
\* one unless the tail of the display list already is a clear-marker, then
\* none), and every Clear click after the first leaves the state as the first
\* left it.
C5_ClearsCoalesce ==
  LET s1 == clearBtn_onclick(St)
      s2 == clearBtn_onclick(s1)
  IN /\ s2 = s1
     /\ TailIsClear(s1.strokes)
     /\ ClearCount(s1.strokes) =
          ClearCount(strokes) + (IF TailIsClear(strokes) THEN 0 ELSE 1)

\* two Clear clicks in a row have happened
C5_Witness ==
  prevEvent = "clear" /\ lastEvent = "clear" /\ TailIsClear(strokes)

\* C6: no item is in the display list and in the redo stack at once, and no
\* item occurs twice in either.
C6_Disjoint ==
  /\ Ids(strokes) \cap Ids(redoStack) = {}
  /\ Cardinality(Ids(strokes)) = Len(strokes)
  /\ Cardinality(Ids(redoStack)) = Len(redoStack)

\* a Redo has moved an item back while another is still on the redo stack
C6_Witness ==
  lastEvent = "redo" /\ Len(strokes) > 0 /\ Len(redoStack) > 0

\* C7: Undo on an empty display list and Redo on an empty redo stack change
\* nothing of the program state.
C7_EmptyIsNoOp ==
  /\ Len(strokes) = 0 => undoBtn_onclick(St) = St
  /\ Len(redoStack) = 0 => redoBtn_onclick(St) = St

\* an Undo click has been handled on an empty display list, a preview showing
C7_Witness ==
  /\ lastEvent = "undo"
  /\ Len(strokes) = 0 /\ Len(redoStack) = 0
  /\ preview # NullPreview

\* C8: after every handler the canvas shows what a redraw of the current
\* state paints: the items after the last clear-marker replayed in order on
\* an empty surface, and the preview on top exactly if one is set and
\* drawing is not active.
C8_FrameFresh ==
  /\ ctx = drawing_changed(St).ctx
  /\ ctx.ops = DisplayFrom(AfterLastClear(strokes), 1, InitCtx).ops
  /\ ctx.overlay # <<>> <=> (preview # NullPreview /\ ~cursor.active)
  /\ ctx.overlay # <<>> =>
       ctx.overlay = preview_draw(preview, imgComplete, InitCtx).overlay

\* a clear-marker with an item after it, and the preview painted on top
C8_Witness ==
  /\ Len(strokes) >= 2 /\ strokes[1].kind = "clear"
  /\ ctx.overlay # <<>>

\* C9: what is painted below the preview is a function of the contents of
\* the display list alone: it is what a fresh context paints for the items
\* with their identity erased, whatever the history, the selected tool,
\* thickness and colour, and no drawing state survives a redraw.
C9_RenderDeterministic ==
  /\ ctx.ops = DisplayFrom(Content(strokes), 1, InitCtx).ops
  /\ ctx.cur = DefaultDrawState
  /\ ctx.stack = <<>>

\* a line painted again after undo and redo while a sticker tool and another
\* colour are selected
C9_Witness ==
  /\ prevEvent = "undo" /\ lastEvent = "redo"
  /\ Len(strokes) > 0 /\ LastOf(strokes).kind = "line"
  /\ (Truthy(currentEmoji) \/ currentColor # LastOf(strokes).color)

\* C10: while drawing is active the preview is null and the canvas shows no
\* preview.
C10_NoPreviewWhileDrawing ==
  cursor.active => (preview = NullPreview /\ ctx.overlay = <<>>)

\* a pointer-move has redrawn while drawing is active
C10_Witness ==
  cursor.active /\ lastEvent = "mousemove" /\ Len(strokes) > 0

\* the surface positions an operation paints at: user-space points times scale
OpPoints(op) ==
  CASE op.op = "fillArc" -> {[x |-> op.x * op.scale, y |-> op.y * op.scale]}
    [] op.op = "fillText" -> {[x |-> op.x * op.scale, y |-> op.y * op.scale]}
    [] op.op = "stroke" ->
         {[x |-> op.path[i].x * op.scale, y |-> op.path[i].y * op.scale] :
            i \in 1..Len(op.path)}

\* the operations with the scale they were painted at erased
RECURSIVE Unscaled(_)
Unscaled(ops) ==
  IF Len(ops) = 0 THEN <<>>
  ELSE <<[ops[1] EXCEPT !.scale = 1]>> \o Unscaled(SubSeq(ops, 2, Len(ops)))

\* C11: an export paints the operations of the live frame, in order and
\* without the preview, at one uniform scale, and every position it paints
\* at lies inside the ExportSize x ExportSize image.
C11_ExportShowsLiveFrame ==
  lastEvent = "export" =>
    LET img == exportBtn_canvas(St)
    IN /\ img.overlay = <<>>
       /\ Unscaled(img.ops) = Unscaled(ctx.ops)
       /\ \A i \in 1..Len(img.ops) :
            /\ img.ops[i].scale = ExportScale
            /\ \A q \in OpPoints(img.ops[i]) :
                 /\ 0 <= q.x /\ q.x < ExportSize
                 /\ 0 <= q.y /\ q.y < ExportSize

\* C12: once the pointer was released or has left the canvas, and until it
\* is pressed again, no pointer-move changes the display list or the redo
\* stack.
C12_NoDragAfterRelease ==
  released =>
    \A p \in Positions :
      LET s == canvas_mousemove(St, p.x, p.y)
      IN s.strokes = strokes /\ s.redoStack = redoStack

\* mousedown, release, pointer-move: the line still has its one point
C12_Witness ==
  /\ released /\ lastEvent = "mousemove"
  /\ Len(strokes) > 0 /\ LastOf(strokes).kind = "line"
  /\ LastOf(strokes).id = lastDownId

Prefix(list, n) == SubSeq(list, 1, n)

\* b is item a after one more drag
Extends(a, b) ==
  /\ b.id = a.id
  /\ b.kind = a.kind
  /\ CASE a.kind = "line" ->
            /\ b.thickness = a.thickness
            /\ b.opacity = a.opacity
            /\ b.color = a.color
            /\ Len(b.points) = Len(a.points) + 1
            /\ Prefix(b.points, Len(a.points)) = a.points
       [] a.kind = "sticker" -> b.emoji = a.emoji
       [] a.kind = "clear" -> FALSE

\* C13: a step of Undo leaves the display list or removes its tail; every
\* other step leaves it, appends one item at its tail, or extends its tail
\* item, all items before the tail staying as they are and where they are.
C13_AppendOnly ==
  [][IF lastEvent' = "undo"
     THEN \/ strokes' = strokes
          \/ Len(strokes) > 0 /\ strokes' = Prefix(strokes, Len(strokes) - 1)
     ELSE \/ strokes' = strokes
          \/ /\ Len(strokes') = Len(strokes) + 1
             /\ Prefix(strokes', Len(strokes)) = strokes
          \/ /\ Len(strokes') = Len(strokes)
             /\ Len(strokes) > 0
             /\ Prefix(strokes', Len(strokes) - 1) = Prefix(strokes, Len(strokes) - 1)
             /\ Extends(LastOf(strokes), LastOf(strokes'))]_vars

\* a pointer-move has extended the tail line of a list of two items
C13_Witness ==
  /\ lastEvent = "mousemove" /\ cursor.active
  /\ Len(strokes) >= 2
  /\ LastOf(strokes).kind = "line" /\ Len(LastOf(strokes).points) = 2

\* C14 as stated: after any Clear click, one Undo click restores the display
\* list of before the Clear click.
C14_ClearUndoRestoresAlways ==
  undoBtn_onclick(clearBtn_onclick(St)).strokes = strokes

\* C14 amended: after any Clear click made while the tail of the display
\* list is not a clear-marker, one Undo click restores the display list of
\* before the Clear click.
C14_ClearUndoRestores ==
  ~TailIsClear(strokes) =>
    undoBtn_onclick(clearBtn_onclick(St)).strokes = strokes

\* mousedown, Clear, Undo: the Clear added a marker and the Undo took it off
C14_Witness ==
  /\ prevEvent = "clear" /\ lastEvent = "undo"
  /\ events = 3 /\ nextId = 2
  /\ Len(strokes) = 1 /\ ~TailIsClear(strokes)
  /\ Len(redoStack) = 1 /\ redoStack[1].kind = "clear"

\* C15: a pointer-move that extends an item while drawing is active extends
\* the item the most recent pointer-down appended.
C15_DragExtendsLastDown ==
  (/\ lastEvent = "mousemove"
   /\ cursor.active
   /\ Len(strokes) > 0
   /\ LastOf(strokes).kind # "clear") => LastOf(strokes).id = lastDownId

Reverse(list) == [i \in 1..Len(list) |-> list[Len(list) + 1 - i]]

\* the display list followed by what Redo would put back, in order
Timeline(st) == st.strokes \o Reverse(st.redoStack)

NoAdjacentClears(list) ==
  \A i \in 1..(Len(list) - 1) :
    ~(list[i].kind = "clear" /\ list[i + 1].kind = "clear")

\* C16: the display list followed by the reversed redo stack never has two
\* adjacent clear-markers; in particular the display list never has.
C16_NoAdjacentClears ==
  /\ NoAdjacentClears(Timeline(St))
  /\ NoAdjacentClears(strokes)

\* a clear-marker in the display list and another on the redo stack
C16_Witness ==
  ClearCount(strokes) >= 1 /\ ClearCount(redoStack) >= 1

RECURSIVE UndoTimes(_, _)
UndoTimes(st, n) == IF n = 0 THEN st ELSE UndoTimes(undoBtn_onclick(st), n - 1)

RECURSIVE RedoTimes(_, _)
RedoTimes(st, n) == IF n = 0 THEN st ELSE RedoTimes(redoBtn_onclick(st), n - 1)

\* C17: Undo and Redo each keep the display list followed by the reversed
\* redo stack, and n Undo clicks then n Redo clicks, n at most the length of
\* the display list, restore the display list and the redo stack.
C17_UndoRedoMoveOnly ==
  /\ Timeline(undoBtn_onclick(St)) = Timeline(St)
  /\ Timeline(redoBtn_onclick(St)) = Timeline(St)
  /\ \A n \in 0..Len(strokes) :
       LET s == RedoTimes(UndoTimes(St, n), n)
       IN s.strokes = strokes /\ s.redoStack = redoStack

\* two Undo clicks then a Redo click: items in both structures
C17_Witness ==
  /\ prevEvent = "undo" /\ lastEvent = "redo"
  /\ Len(strokes) >= 1 /\ Len(redoStack) >= 1
  /\ events = 5

\* C18: a pointer-down appends exactly one item and sets the drawing-active
\* flag: a sticker with the selected glyph at the pointer position if a
\* sticker tool is selected, and only then; otherwise a line of one point at
\* the pointer position with the selected thickness, opacity and colour.
C18_MouseDownAppendsSelected ==
  \A p \in Positions :
    LET s == canvas_mousedown(St, p.x, p.y)
        item == LastOf(s.strokes)
    IN /\ Len(s.strokes) = Len(strokes) + 1
       /\ Prefix(s.strokes, Len(strokes)) = strokes
       /\ s.cursor.active
       /\ (item.kind = "sticker") <=> Truthy(currentEmoji)
       /\ item.kind \in {"sticker", "line"}
       /\ item.kind = "sticker" =>
            item.emoji = currentEmoji.text /\ item.x = p.x /\ item.y = p.y
       /\ item.kind = "line" =>
            /\ item.points = <<[x |-> p.x, y |-> p.y]>>
            /\ item.thickness = currentThickness
            /\ item.opacity = currentOpacity
            /\ item.color = currentColor

\* a pointer-down with the highlighter and a picked colour selected
C18_Witness ==
  /\ lastEvent = "mousedown"
  /\ LastOf(strokes).kind = "line"
  /\ LastOf(strokes).opacity = HighlightOpacity
  /\ LastOf(strokes).color # "#000000"

\* every item of the display list and of the redo stack
AllItems == {strokes[i] : i \in 1..Len(strokes)} \cup
            {redoStack[i] : i \in 1..Len(redoStack)}

\* C19: in every step each item stays as it is, except the tail of the
\* display list in a pointer-move while drawing is active: a line gets the
\* pointer position appended to its points, a sticker gets the pointer
\* position as its position and keeps its glyph, a clear-marker stays as it
\* is; and the item a pointer-down appends is at the pointer position.
C19_DragByVariant ==
  [][/\ \A a \in AllItems : \A b \in AllItems' :
          b.id = a.id =>
            IF /\ lastEvent' = "mousemove" /\ cursor.active
               /\ Len(strokes) > 0 /\ a = LastOf(strokes)
            THEN CASE a.kind = "line" ->
                        b = [a EXCEPT !.points =
                               Append(@, [x |-> cursor'.x, y |-> cursor'.y])]
                   [] a.kind = "sticker" ->
                        b = [a EXCEPT !.x = cursor'.x, !.y = cursor'.y]
                   [] a.kind = "clear" -> b = a
            ELSE b = a
     /\ lastEvent' = "mousedown" =>
          LET item == LastOf(strokes')
          IN /\ item.kind = "line" =>
                  item.points = <<[x |-> cursor'.x, y |-> cursor'.y]>>
             /\ item.kind = "sticker" =>
                  item.x = cursor'.x /\ item.y = cursor'.y]_vars

\* a sticker has been dragged twice
C19_Witness ==
  /\ prevEvent = "mousemove" /\ lastEvent = "mousemove"
  /\ cursor.active
  /\ Len(strokes) > 0 /\ LastOf(strokes).kind = "sticker"
  /\ LastOf(strokes).id = lastDownId

\* the events of the tool buttons, the colour picker and the custom stickers
ToolEvents ==
  {"thin", "thick", "highlight", "flower", "teddy", "sparkle",
   "color", "custom", "customsticker"}

\* C20: a click on a tool button (built-in or custom sticker), an input of the
\* colour picker and the creation of a custom sticker leave the display list
\* and the redo stack as they were, item by item: no existing item changes
\* its thickness, opacity, colour or glyph.
C20_ToolsLeaveItems ==
  [][lastEvent' \in ToolEvents =>
       /\ strokes' = strokes
       /\ redoStack' = redoStack]_vars

\* a custom sticker was created and picked while the display list holds a
\* sticker of another glyph
C20_Witness ==
  /\ lastEvent = "customsticker"
  /\ customStickers # <<>>
  /\ \E i \in 1..Len(strokes) :
       strokes[i].kind = "sticker" /\ strokes[i].emoji # currentEmoji.text

\* the six built-in tool buttons
BuiltInTools == {"thinBtn", "thickBtn", "hlBtn", "flowerBtn", "teddyBtn", "sparkleBtn"}

\* the built-in tool buttons that are disabled
DisabledBuiltIn == {n \in BuiltInTools : buttons[n]}

\* the custom sticker buttons that are disabled, by position in the custom row
DisabledCustom == {i \in 1..Len(buttons.customBtns) : buttons.customBtns[i]}

\* C21: in every reachable state exactly one tool button (Thin, Thick,
\* Highlight, Flower, Teddy, Sparkle or a custom sticker button) is disabled,
\* and it names the active tool: a disabled marker button means no glyph is
\* selected and the thickness and opacity are that marker's; a disabled
\* sticker button means the selected glyph is that button's glyph.
C21_OneDisabledIsActiveTool ==
  /\ Cardinality(DisabledBuiltIn) + Cardinality(DisabledCustom) = 1
  /\ Len(buttons.customBtns) = Len(customStickers)
  /\ buttons.thinBtn =>
       /\ currentEmoji = NullEmoji
       /\ currentThickness = ThinThickness /\ currentOpacity = FullOpacity
  /\ buttons.thickBtn =>
       /\ currentEmoji = NullEmoji
       /\ currentThickness = ThickThickness /\ currentOpacity = FullOpacity
  /\ buttons.hlBtn =>
       /\ currentEmoji = NullEmoji
       /\ currentThickness = HighlightThickness
       /\ currentOpacity = HighlightOpacity
  /\ buttons.flowerBtn => currentEmoji = Emoji(Flower)
  /\ buttons.teddyBtn => currentEmoji = Emoji(Teddy)
  /\ buttons.sparkleBtn => currentEmoji = Emoji(Sparkle)
  /\ \A i \in DisabledCustom : currentEmoji = Emoji(customStickers[i])

\* the highlighter was picked while a custom sticker button was the disabled one
C21_Witness ==
  /\ prevEvent = "customsticker" /\ lastEvent = "highlight"
  /\ customStickers # <<>>
  /\ buttons.hlBtn

\* C22: in the earlier undo/redo sketchpad a Clear click empties both the
\* display list and the redo stack, whatever they held; right after it an
\* Undo click and a Redo click change nothing, so no stroke comes back.
C22_EarlyClearIsFinal ==
  LET c == early_clearBtn_onclick(early)
  IN /\ c.strokes = <<>> /\ c.redoStack = <<>>
     /\ early_undoBtn_onclick(c) = c
     /\ early_redoBtn_onclick(c) = c
     /\ earlyLast = "clear" =>
          /\ early = c
          /\ early.strokes = <<>> /\ early.redoStack = <<>> /\ early.ctx.ops = <<>>

\* Clear was clicked while both the display list and the redo stack held strokes
C22_Witness ==
  /\ earlyLast = "clear"
  /\ earlyBeforeClear.strokes > 0
  /\ earlyBeforeClear.redoStack > 0

====
